---- MODULE Spec2Model ----
(***************************************************************************)
(* Turn-resolution engine of the narrative RPG (js/game-engine.js,         *)
(* js/state.js, js/utils.js, js/console-debug.js, js/ui.js).               *)
(*                                                                         *)
(* The program is single-threaded and cooperative: every action below is   *)
(* one run-to-completion segment of a handler, from one suspension point   *)
(* (an await) to the next.  Two kinds of turn exist, the opening turn      *)
(* (startNewGame, thread "o") and the player turn (handlePlayerAction,     *)
(* thread "p").                                                            *)
(***************************************************************************)
EXTENDS Integers, Sequences, FiniteSets, TLC

VARIABLES game, isProcessing, th, begin, screen, inputDisabled, typewriter,
          clickable, diceFirst, isRolling, autoSaveInterval, games, saves,
          probe

vars == <<game, isProcessing, th, begin, screen, inputDisabled, typewriter,
          clickable, diceFirst, isRolling, autoSaveInterval, games, saves,
          probe>>

(***************************************************************************)
(* Program constants (js/config.js).                                       *)
(***************************************************************************)
DEFAULT_AUTO_SAVE_INTERVAL == 5
DEFAULT_STARTING_HP == 100
MAX_KEY_NPCS == 10
MAX_STAT_VALUE == 5
SPECIAL_ABILITY_BONUS == 5
RECENT_TURNS_TO_KEEP == 5

(***************************************************************************)
(* Bounds of the model.                                                    *)
(***************************************************************************)
MaxTurns == 2
MaxGames == 2
MaxClickable == 1

Threads == {"o", "p"}

Min(a, b) == IF a < b THEN a ELSE b
Max(a, b) == IF a > b THEN a ELSE b

(***************************************************************************)
(* String.prototype.toLowerCase on the NPC names the model uses.           *)
(***************************************************************************)
ToLowerCase(s) == IF s = "Bob" THEN "bob" ELSE s

(***************************************************************************)
(* Values.  An absent (null / undefined) string is "", an absent event or  *)
(* NPC record has its presence flag cleared, an absent list is << >>.      *)
(***************************************************************************)
(***************************************************************************)
(* Values of event.difficulty that are not integers: NotANumber is a JSON  *)
(* string or object that converts to no number (as "hard"), NaN is the     *)
(* number Math.max and Math.min make of it.  Every comparison with NaN is  *)
(* false and arithmetic on it gives NaN.                                   *)
(***************************************************************************)
NotANumber == -2000

NaN == -1000

NoEvent == [type |-> "none", stat |-> "STR", difficulty |-> 0, severity |-> "basic"]

Undefined == "undefined"

NoNpc == [present |-> FALSE, name |-> "", relationship |-> 0]

NoData ==
  [story |-> "", event |-> NoEvent, item_gained |-> "", item_lost |-> "",
   new_npc |-> NoNpc, npc_updates |-> << >>, hp_change |-> 0, xp_gained |-> 0,
   game_end |-> FALSE]

NoDice == [roll |-> 0, bonus |-> 0, total |-> 0, difficulty |-> 0, passed |-> FALSE]

IdleThread ==
  [pc |-> "idle", action |-> "", data |-> NoData, dice |-> NoDice,
   hpLost |-> 0, xpGained |-> 0, hitZero |-> FALSE, outReq |-> "",
   outResp |-> NoData, hasOutcome |-> FALSE, snapTurn |-> 0]

(***************************************************************************)
(* GameState.state.game as resetGame builds it (also the initial value).   *)
(***************************************************************************)
NewCharacter ==
  [level |-> 1, xp |-> 0, xpToNext |-> 100,
   hp |-> DEFAULT_STARTING_HP, maxHp |-> DEFAULT_STARTING_HP,
   stats |-> [s \in {"STR", "DEX", "INT", "CHA", "WIL"} |-> 0],
   abilityName |-> "", abilityStat |-> "STR"]

ResetGameValue(id) ==
  [gid |-> id, saveSlotId |-> 0, status |-> "active", character |-> NewCharacter,
   keyNpcs |-> << >>, items |-> << >>, recentTurns |-> << >>,
   turnCount |-> 0, lastSaveTurn |-> 0]

(***************************************************************************)
(* ProgressionEngine: applyHP, applyXP (game-engine.js).                   *)
(***************************************************************************)
(* Faulty variant: applyHP without the floor at 0. *)
ApplyHPNoFloor(c, change) ==
  [c EXCEPT !.hp = Min(c.maxHp, c.hp + change)]

ApplyHP(c, change) ==
  [c EXCEPT !.hp = Max(0, Min(c.maxHp, c.hp + change))]

(* Faulty variant: at most one level gained per call. *)
LevelOnce(c) ==
  IF c.xp >= c.xpToNext
    THEN [c EXCEPT !.xp = c.xp - c.xpToNext,
                   !.level = c.level + 1,
                   !.xpToNext = (c.xpToNext * 3) \div 2,
                   !.maxHp = c.maxHp + 10,
                   !.hp = Min(c.hp + 10, c.maxHp + 10)]
    ELSE c

RECURSIVE LevelLoop(_)
LevelLoop(c) ==
  IF c.xp >= c.xpToNext
    THEN LevelLoop([c EXCEPT !.xp = c.xp - c.xpToNext,
                             !.level = c.level + 1,
                             !.xpToNext = (c.xpToNext * 3) \div 2,
                             !.maxHp = c.maxHp + 10,
                             !.hp = Min(c.hp + 10, c.maxHp + 10)])
    ELSE c

(* Faulty variant: the amount added without the level loop. *)
ApplyXPNoLoop(c, amount) == [c EXCEPT !.xp = c.xp + amount]

ApplyXP(c, amount) == LevelLoop([c EXCEPT !.xp = c.xp + amount])

(***************************************************************************)
(* Mechanical deltas of a resolved dice check (game-engine.js).            *)
(***************************************************************************)
(* Faulty variant: the loss charged whatever the severity. *)
CalculateHPLossAnySeverity(event) == 0 - ((event.difficulty \div 3) + 2)

CalculateHPLoss(event) ==
  IF event.severity # "important" THEN 0
  ELSE IF event.difficulty = NaN THEN NaN
  ELSE 0 - ((event.difficulty \div 3) + 2)

(* Faulty variant: the flat 5 XP on success too. *)
CalculateXPFlat(passed, difficulty) == 5

CalculateXP(passed, difficulty) ==
  IF passed THEN 5 + (difficulty \div 2) * 2 ELSE 5

(***************************************************************************)
(* DiceResolver: Utils.resolveDiceCheck (utils.js).                        *)
(***************************************************************************)
(* Faulty variant: a total equal to the difficulty does not pass. *)
ResolveDiceCheckStrict(roll, statValue, difficulty, useSpecialAbility) ==
  LET bonus == statValue + (IF useSpecialAbility THEN SPECIAL_ABILITY_BONUS ELSE 0)
      total == roll + bonus
  IN  [roll |-> roll, bonus |-> bonus, total |-> total,
       difficulty |-> difficulty,
       passed |-> difficulty # NaN /\ total > difficulty]

ResolveDiceCheck(roll, statValue, difficulty, useSpecialAbility) ==
  LET bonus == statValue + (IF useSpecialAbility THEN SPECIAL_ABILITY_BONUS ELSE 0)
      total == roll + bonus
  IN  [roll |-> roll, bonus |-> bonus, total |-> total,
       difficulty |-> difficulty,
       passed |-> difficulty # NaN /\ total >= difficulty]

IsDiceEvent(event) == event.type \in {"stat_check", "combat"}

(***************************************************************************)
(* ResponseValidator: AI.validateGameResponse (state.js).  A raw response   *)
(* is the text the generator returned: kind "text" does not parse, kind    *)
(* "null" parses to the JSON value null, kind "scalar" to a number, a      *)
(* boolean or a string (every field of which reads undefined and on which  *)
(* an assignment has no effect), kind "object" to an object with the       *)
(* fields given.                                                           *)
(***************************************************************************)
ValidTypes == {"stat_check", "combat", "item_found", "npc_encounter", "story_end"}
ValidStats == {"STR", "DEX", "INT", "CHA", "WIL"}

ValidateEvent(e) ==
  IF e.type = "none" THEN [event |-> NoEvent, errors |-> << >>]
  ELSE IF e.type \notin ValidTypes
    THEN [event |-> NoEvent, errors |-> <<"Invalid event type">>]
  ELSE IF IsDiceEvent(e)
    THEN LET badStat == e.stat \notin ValidStats
             badDiff == e.difficulty = NotANumber \/ e.difficulty < 1
                          \/ e.difficulty > 20
             diff == IF e.difficulty = NotANumber THEN NaN
                     ELSE IF badDiff
                       THEN Min(20, Max(1, IF e.difficulty = 0 THEN 12 ELSE e.difficulty))
                       ELSE e.difficulty
         IN  [event |-> [type |-> e.type,
                         stat |-> IF badStat THEN "STR" ELSE e.stat,
                         difficulty |-> diff,
                         severity |-> IF e.severity \in {"basic", "important"}
                                        THEN e.severity ELSE "basic"],
              errors |-> (IF badStat THEN <<"Invalid stat">> ELSE << >>)
                         \o (IF badDiff THEN <<"Invalid difficulty">> ELSE << >>)]
  ELSE [event |-> e, errors |-> << >>]

ValidateGameResponse(raw) ==
  IF raw.kind = "text"
    THEN [threw |-> FALSE, valid |-> FALSE,
          data |-> [NoData EXCEPT !.story = raw.text],
          errors |-> <<"JSON parse failed">>]
  ELSE IF raw.kind = "null"
    THEN [threw |-> TRUE, valid |-> FALSE, data |-> NoData, errors |-> << >>]
  ELSE IF raw.kind = "scalar"
    THEN [threw |-> FALSE, valid |-> FALSE, data |-> NoData,
          errors |-> <<"Missing or invalid story field">>]
  ELSE LET badStory == raw.story = ""
           ev == ValidateEvent(raw.event)
           errs == (IF badStory THEN <<"Missing or invalid story field">> ELSE << >>)
                   \o ev.errors
       IN  [threw |-> FALSE, valid |-> errs = << >>,
            data |-> [story |-> IF badStory THEN raw.text ELSE raw.story,
                      event |-> ev.event,
                      item_gained |-> raw.item_gained, item_lost |-> raw.item_lost,
                      new_npc |-> raw.new_npc, npc_updates |-> raw.npc_updates,
                      hp_change |-> raw.hp_change, xp_gained |-> raw.xp_gained,
                      game_end |-> raw.game_end],
            errors |-> errs]

(***************************************************************************)
(* AI.validateDiceOutcome (state.js): the TypeError of a null value is     *)
(* raised inside its own try block, so it never propagates.                *)
(***************************************************************************)
ValidateDiceOutcome(raw) ==
  IF raw.kind \in {"text", "null"}
    THEN [valid |-> FALSE, data |-> [NoData EXCEPT !.story = raw.text]]
  ELSE IF raw.kind = "scalar" THEN [valid |-> TRUE, data |-> NoData]
    ELSE [valid |-> TRUE,
          data |-> [story |-> IF raw.story = "" THEN raw.text ELSE raw.story,
                    event |-> NoEvent,
                    item_gained |-> raw.item_gained, item_lost |-> raw.item_lost,
                    new_npc |-> raw.new_npc, npc_updates |-> raw.npc_updates,
                    hp_change |-> raw.hp_change, xp_gained |-> raw.xp_gained,
                    game_end |-> raw.game_end]]

(***************************************************************************)
(* AI.validateWorldResponse (state.js): a parse failure, and the TypeError *)
(* of a null value inside the try block, return data: null.                *)
(***************************************************************************)
NoWorld == [present |-> FALSE]

ValidateWorldResponse(raw) ==
  IF raw.kind \in {"text", "null"}
    THEN [valid |-> FALSE, data |-> NoWorld]
    ELSE [valid |-> TRUE, data |-> [present |-> TRUE]]

(***************************************************************************)
(* NPCRegistry: addNPC, updateNPCs (game-engine.js).  Array.find calls     *)
(* n.name.toLowerCase() and npcData.name.toLowerCase() for each stored     *)
(* NPC in turn, which raises a TypeError when either name is undefined.    *)
(* FindNPC returns the index found, 0 when none, -1 when it raised.        *)
(***************************************************************************)
RECURSIVE FindNPC(_, _, _)
FindNPC(npcs, name, i) ==
  IF i > Len(npcs) THEN 0
  ELSE IF npcs[i].name = Undefined \/ name = Undefined THEN -1
  ELSE IF ToLowerCase(npcs[i].name) = ToLowerCase(name) THEN i
  ELSE FindNPC(npcs, name, i + 1)

(* Faulty variant: addNPC without the test of the list length. *)
AddNPCNoCap(npcs, npcData) ==
  LET found == FindNPC(npcs, npcData.name, 1)
  IN  IF found = -1 THEN [threw |-> TRUE, npcs |-> npcs]
      ELSE IF found > 0 THEN [threw |-> FALSE, npcs |-> npcs]
      ELSE [threw |-> FALSE,
            npcs |-> Append(npcs, [name |-> npcData.name,
                                   relationship |-> npcData.relationship])]

AddNPC(npcs, npcData) ==
  IF Len(npcs) >= MAX_KEY_NPCS THEN [threw |-> FALSE, npcs |-> npcs]
  ELSE LET found == FindNPC(npcs, npcData.name, 1)
       IN  IF found = -1 THEN [threw |-> TRUE, npcs |-> npcs]
           ELSE IF found > 0 THEN [threw |-> FALSE, npcs |-> npcs]
           ELSE [threw |-> FALSE,
                 npcs |-> Append(npcs, [name |-> npcData.name,
                                        relationship |-> npcData.relationship])]

RECURSIVE UpdateNPCs(_, _)
UpdateNPCs(npcs, updates) ==
  IF updates = << >> THEN [threw |-> FALSE, npcs |-> npcs]
  ELSE LET u == Head(updates)
           found == FindNPC(npcs, u.name, 1)
       IN  IF found = -1 THEN [threw |-> TRUE, npcs |-> npcs]
           ELSE IF found = 0 THEN UpdateNPCs(npcs, Tail(updates))
           ELSE UpdateNPCs(
                  [npcs EXCEPT ![found].relationship =
                     Max(-100, Min(100, npcs[found].relationship + u.change))],
                  Tail(updates))

(***************************************************************************)
(* Inventory: push, and indexOf/splice of the first match.                 *)
(***************************************************************************)
RECURSIVE RemoveFirst(_, _)
RemoveFirst(items, x) ==
  IF items = << >> THEN << >>
  ELSE IF Head(items) = x THEN Tail(items)
  ELSE <<Head(items)>> \o RemoveFirst(Tail(items), x)

ItemsAfter(items, d) ==
  LET gained == IF d.item_gained # "" THEN Append(items, d.item_gained) ELSE items
  IN  IF d.item_lost # "" THEN RemoveFirst(gained, d.item_lost) ELSE gained

(***************************************************************************)
(* The item and NPC side effects of a response, in the order               *)
(* processAIResponse and handleDiceEvent apply them; an exception keeps    *)
(* what was applied before it.                                             *)
(***************************************************************************)
SideEffects(g, d) ==
  LET g1 == [g EXCEPT !.items = ItemsAfter(g.items, d)]
      a == IF d.new_npc.present THEN AddNPC(g1.keyNpcs, d.new_npc)
           ELSE [threw |-> FALSE, npcs |-> g1.keyNpcs]
      u == IF a.threw THEN a ELSE UpdateNPCs(a.npcs, d.npc_updates)
  IN  [threw |-> u.threw, game |-> [g1 EXCEPT !.keyNpcs = u.npcs]]

(***************************************************************************)
(* GameState.addStoryEntry, shouldAutoSave (state.js).                     *)
(***************************************************************************)
(* Faulty variant: the window keeps the oldest entries. *)
LastNFirst(seq, n) ==
  IF Len(seq) <= n THEN seq ELSE SubSeq(seq, 1, n)

LastN(seq, n) ==
  IF Len(seq) <= n THEN seq ELSE SubSeq(seq, Len(seq) - n + 1, Len(seq))

(* Faulty variant: the entry is not recorded. *)
AddStoryEntryDrop(turns, entry) == turns

AddStoryEntry(turns, entry) == LastN(Append(turns, entry), RECENT_TURNS_TO_KEEP)

(* The whole of addStoryEntry: the append-only history and the window. *)
AddStoryEntryState(st, entry) ==
  [storyHistory |-> Append(st.storyHistory, entry),
   recentTurns  |-> AddStoryEntry(st.recentTurns, entry)]

ShouldAutoSave(g, interval) == (g.turnCount - g.lastSaveTurn) >= interval

(***************************************************************************)
(* The Turn record processAIResponse builds; a null outcome request is "", *)
(* a null outcome response is NoData.                                      *)
(***************************************************************************)
(* Faulty variant: the outcome request is recorded even when               *)
(* handleDiceEvent returned null.                                          *)
TurnEntryAlways(r) ==
  [playerAction |-> r.action, aiResponse |-> r.data,
   diceOutcomeRequest |-> r.outReq, diceOutcomeResponse |-> r.outResp]

TurnEntry(r) ==
  [playerAction |-> r.action, aiResponse |-> r.data,
   diceOutcomeRequest |-> IF r.hasOutcome THEN r.outReq ELSE "",
   diceOutcomeResponse |-> IF r.hasOutcome THEN r.outResp ELSE NoData]

(***************************************************************************)
(* Lines 177-201 of processAIResponse: the declared hp/xp of a non-dice    *)
(* turn, the Turn appended, the counter raised, the termination check.     *)
(***************************************************************************)
(* Faulty variant: the declared hp/xp applied on dice turns too. *)
DeclaredDeltasAlways(c, d) ==
  LET cx == IF d.xp_gained > 0 THEN ApplyXP(c, d.xp_gained) ELSE c
  IN  IF d.hp_change # 0 THEN ApplyHP(cx, d.hp_change) ELSE cx

(* Faulty variant: a declared gain of HP is ignored. *)
DeclaredDeltasLossOnly(c, d) ==
  IF IsDiceEvent(d.event) THEN c
  ELSE LET cx == IF d.xp_gained > 0 THEN ApplyXP(c, d.xp_gained) ELSE c
       IN  IF d.hp_change < 0 THEN ApplyHP(cx, d.hp_change) ELSE cx

DeclaredDeltas(c, d) ==
  IF IsDiceEvent(d.event) THEN c
  ELSE LET cx == IF d.xp_gained > 0 THEN ApplyXP(c, d.xp_gained) ELSE c
       IN  IF d.hp_change # 0 THEN ApplyHP(cx, d.hp_change) ELSE cx

EndDeclared(r) == r.data.game_end \/ (r.hasOutcome /\ r.outResp.game_end)

(* Faulty variant: a declared end is always a victory. *)
EndStatusNoHpCheck(r, c, status) ==
  IF EndDeclared(r) THEN "completed"
  ELSE IF c.hp <= 0 THEN "failed"
  ELSE status

EndStatus(r, c, status) ==
  IF EndDeclared(r) THEN (IF c.hp > 0 THEN "completed" ELSE "failed")
  ELSE IF c.hp <= 0 THEN "failed"
  ELSE status

(* Faulty variant: a dice turn is recorded once for each of its exchanges. *)
CompleteTurnTwoRecords(g, r) ==
  LET c == DeclaredDeltas(g.character, r.data)
      one == AddStoryEntry(g.recentTurns, TurnEntry(r))
  IN  [g EXCEPT !.character = c,
                !.recentTurns = IF IsDiceEvent(r.data.event)
                                  THEN AddStoryEntry(one, TurnEntry(r))
                                  ELSE one,
                !.turnCount = g.turnCount + 1,
                !.status = EndStatus(r, c, g.status)]

CompleteTurn(g, r) ==
  LET c == DeclaredDeltas(g.character, r.data)
  IN  [g EXCEPT !.character = c,
                !.recentTurns = AddStoryEntry(g.recentTurns, TurnEntry(r)),
                !.turnCount = g.turnCount + 1,
                !.status = EndStatus(r, c, g.status)]

Ends(g, r) ==
  LET c == DeclaredDeltas(g.character, r.data)
  IN  EndDeclared(r) \/ c.hp <= 0

(***************************************************************************)
(* Inputs: what the generator may return, what the d20 may draw, what the  *)
(* player may choose at character creation and in the settings modal.      *)
(***************************************************************************)
RawObject(ev, hp, xp, ge, ig, il, nn, nu) ==
  [kind |-> "object", text |-> "raw", story |-> "s", event |-> ev,
   item_gained |-> ig, item_lost |-> il, new_npc |-> nn, npc_updates |-> nu,
   hp_change |-> hp, xp_gained |-> xp, game_end |-> ge]

RawText == [RawObject(NoEvent, 0, 0, FALSE, "", "", NoNpc, << >>) EXCEPT !.kind = "text"]
RawNull == [RawObject(NoEvent, 0, 0, FALSE, "", "", NoNpc, << >>) EXCEPT !.kind = "null"]
RawScalar == [RawObject(NoEvent, 0, 0, FALSE, "", "", NoNpc, << >>) EXCEPT !.kind = "scalar"]

Event(type, stat, difficulty, severity) ==
  [type |-> type, stat |-> stat, difficulty |-> difficulty, severity |-> severity]

Npc(name, relationship) == [present |-> TRUE, name |-> name, relationship |-> relationship]

HardCheck == Event("stat_check", "STR", 20, "important")

ThrowingUpdate == <<[name |-> Undefined, change |-> 5]>>

PrimaryRaws ==
  {RawNull,
   RawObject(NoEvent, 0, 0, FALSE, "", "", NoNpc, << >>),
   RawObject(NoEvent, -92, 95, FALSE, "", "", NoNpc, << >>),
   RawObject(NoEvent, -100, 0, FALSE, "", "", NoNpc, << >>),
   RawObject(Event("story_end", "STR", 0, "basic"), 0, 0, TRUE, "", "", NoNpc, << >>),
   RawObject(NoEvent, -100, 0, TRUE, "", "", NoNpc, << >>),
   RawObject(HardCheck, -100, 95, FALSE, "", "", NoNpc, << >>),
   RawObject(NoEvent, 0, 0, FALSE, "", "", Npc("Bob", 150), ThrowingUpdate)}

OutcomeRaws ==
  {RawText,
   RawObject(NoEvent, 0, 0, TRUE, "", "", NoNpc, << >>),
   RawObject(NoEvent, -100, 50, FALSE, "potion", "", NoNpc, ThrowingUpdate)}

Draws == {1, 20}

CharChoices ==
  {[stats |-> [s \in ValidStats |-> IF s \in {"STR", "DEX"} THEN 5 ELSE 0],
    abilityStat |-> "STR"]}

AutoSaveChoices == {1, DEFAULT_AUTO_SAVE_INTERVAL}

(***************************************************************************)
(* Initial state: the application after construction and login, on the     *)
(* main menu, with the GameState singleton as constructed.  probe is the    *)
(* call of a single function under examination (SpecUnit below); the       *)
(* application itself never touches it.                                    *)
(***************************************************************************)
NoProbe == [fn |-> "none", in |-> << >>, done |-> FALSE, out |-> << >>]

EngineInit ==
  /\ game = ResetGameValue(0)
  /\ games = 0
  /\ isProcessing = FALSE
  /\ th = [t \in Threads |-> IdleThread]
  /\ begin = [pc |-> "idle", gid |-> 0]
  /\ screen = "menu"
  /\ inputDisabled = FALSE
  /\ typewriter = ""
  /\ isRolling = FALSE
  /\ autoSaveInterval = DEFAULT_AUTO_SAVE_INTERVAL
  /\ clickable = 0
  /\ diceFirst = ""
  /\ saves = << >>

Init == EngineInit /\ probe = NoProbe

(***************************************************************************)
(* The dice wait hides the input field and the send button               *)
(* (waitForDiceRoll) until the dice button is clicked.                     *)
(***************************************************************************)
InputHidden == \E t \in Threads : th[t].pc = "awaitDice"

(***************************************************************************)
(* A turn handler returning to its caller: handlePlayerAction releases the *)
(* guard (line 112), startNewGame re-enables the input (line 35).          *)
(***************************************************************************)
Returned(t, disabled) ==
  /\ th' = [th EXCEPT ![t] = IdleThread]
  /\ isProcessing' = IF t = "p" THEN FALSE ELSE isProcessing
  /\ inputDisabled' = IF t = "o" THEN FALSE ELSE disabled

(* Faulty variant of the catch path: the guard is not released. *)
CaughtKeepsGuard(t) ==
  /\ th' = [th EXCEPT ![t] = IdleThread]
  /\ isProcessing' = isProcessing
  /\ inputDisabled' = FALSE

(***************************************************************************)
(* An exception reaching the catch block of handlePlayerAction (106-112)   *)
(* or of startNewGame (36-40).                                             *)
(***************************************************************************)
Caught(t) ==
  /\ th' = [th EXCEPT ![t] = IdleThread]
  /\ isProcessing' = IF t = "p" THEN FALSE ELSE isProcessing
  /\ inputDisabled' = FALSE

(***************************************************************************)
(* manualSave (game-engine.js 407-418) up to its first await: the snapshot *)
(* is built from the game as it is now, and the database call it is handed *)
(* to is pending.  turnCount is the turn counter inside the snapshot.      *)
(***************************************************************************)
PendingSave(g) ==
  [gid |-> g.gid, create |-> g.saveSlotId = 0,
   status |-> IF g.saveSlotId = 0 THEN "active" ELSE g.status,
   turnCount |-> g.turnCount]

(***************************************************************************)
(* processAIResponse from line 177 to its end, on game value g.            *)
(***************************************************************************)
TurnTail(t, g, r, disabled) ==
  LET g2 == CompleteTurn(g, r)
  IN  /\ game' = g2
      /\ IF Ends(g, r)
           THEN /\ screen' = "epilogue"
                /\ saves' = Append(saves, PendingSave(g2))
                /\ Returned(t, disabled)
           ELSE /\ screen' = screen
                /\ saves' = saves
                /\ IF ShouldAutoSave(g2, autoSaveInterval) /\ g2.saveSlotId # 0
                     THEN /\ th' = [th EXCEPT ![t] = [r EXCEPT !.pc = "autosave",
                                                               !.snapTurn = g2.turnCount]]
                          /\ isProcessing' = isProcessing
                          /\ inputDisabled' = disabled
                     ELSE Returned(t, disabled)

(***************************************************************************)
(* Navigation (utils.js): main menu, character creation, quit, epilogue.   *)
(***************************************************************************)
MenuNewGame ==
  /\ screen = "menu"
  /\ games < MaxGames
  /\ games' = games + 1
  /\ game' = ResetGameValue(games + 1)
  /\ screen' = "create"
  /\ UNCHANGED <<probe, diceFirst, saves, clickable, isProcessing, th, begin, inputDisabled,
                 typewriter, isRolling, autoSaveInterval>>

BeginClick(choice) ==
  /\ screen = "create"
  /\ begin.pc = "idle"
  /\ th["o"].pc = "idle"
  /\ game' = [game EXCEPT !.character.stats = choice.stats,
                          !.character.abilityName = "None",
                          !.character.abilityStat = choice.abilityStat]
  /\ begin' = [pc |-> "saving", gid |-> game.gid]
  /\ UNCHANGED <<probe, diceFirst, saves, clickable, games, isProcessing, th, screen,
                 inputDisabled, typewriter, isRolling, autoSaveInterval>>

BeginDone(created) ==
  /\ begin.pc = "saving"
  /\ game' = IF created /\ begin.gid = game.gid
               THEN [game EXCEPT !.saveSlotId = game.gid] ELSE game
  /\ begin' = [pc |-> "idle", gid |-> 0]
  /\ screen' = "gameplay"
  /\ th' = [th EXCEPT !["o"] = [IdleThread EXCEPT !.pc = "awaitPrimary"]]
  /\ inputDisabled' = TRUE
  /\ UNCHANGED <<probe, diceFirst, saves, clickable, games, isProcessing, typewriter, isRolling,
                 autoSaveInterval>>

Quit ==
  /\ screen = "gameplay"
  /\ screen' = "menu"
  /\ UNCHANGED <<probe, diceFirst, saves, clickable, game, games, isProcessing, th, begin,
                 inputDisabled, typewriter, isRolling, autoSaveInterval>>

EpilogueMenu ==
  /\ screen = "epilogue"
  /\ screen' = "menu"
  /\ UNCHANGED <<probe, diceFirst, saves, clickable, game, games, isProcessing, th, begin,
                 inputDisabled, typewriter, isRolling, autoSaveInterval>>

SetAutoSave(v) ==
  /\ screen = "menu"
  /\ v # autoSaveInterval
  /\ autoSaveInterval' = v
  /\ UNCHANGED <<probe, diceFirst, saves, clickable, game, games, isProcessing, th, begin,
                 screen, inputDisabled, typewriter, isRolling>>

(***************************************************************************)
(* sendAction (bindGameplayScreen) and the head of handlePlayerAction.     *)
(***************************************************************************)
CanSubmit == screen = "gameplay" /\ ~inputDisabled /\ ~InputHidden

SubmitDropped ==
  /\ CanSubmit
  /\ isProcessing
  /\ UNCHANGED <<probe, diceFirst, saves, clickable, game, games, isProcessing, th, begin,
                 screen, inputDisabled, typewriter, isRolling,
                 autoSaveInterval>>

SubmitAccepted ==
  /\ CanSubmit
  /\ ~isProcessing
  /\ game.turnCount < MaxTurns
  /\ isProcessing' = TRUE
  /\ inputDisabled' = TRUE
  /\ th' = [th EXCEPT !["p"] = [IdleThread EXCEPT !.pc = "awaitPrimary",
                                                  !.action = "act"]]
  /\ UNCHANGED <<probe, diceFirst, saves, clickable, game, games, begin, screen, typewriter,
                 isRolling, autoSaveInterval>>

(***************************************************************************)
(* The primary generator call settles: AI.sendPrompt throws, or returns    *)
(* text that validateGameResponse turns into data (or raises on).          *)
(***************************************************************************)
PrimaryFail(t) ==
  /\ th[t].pc = "awaitPrimary"
  /\ Caught(t)
  /\ UNCHANGED <<probe, diceFirst, saves, clickable, game, games, begin, screen, typewriter,
                 isRolling, autoSaveInterval>>

PrimaryReturn(t, raw) ==
  /\ th[t].pc = "awaitPrimary"
  /\ LET v == ValidateGameResponse(raw)
     IN  IF v.threw
           THEN Caught(t) /\ typewriter' = typewriter
           ELSE /\ th' = [th EXCEPT ![t] = [@ EXCEPT !.pc = "narrPrimary",
                                                     !.data = v.data]]
                /\ typewriter' = t
                /\ inputDisabled' = IF t = "p" THEN FALSE ELSE inputDisabled
                /\ isProcessing' = isProcessing
  /\ UNCHANGED <<probe, diceFirst, saves, clickable, game, games, begin, screen, isRolling,
                 autoSaveInterval>>

(***************************************************************************)
(* A narration (UI.addStoryNarration) resolves: by its interval timer,     *)
(* which only the latest typewriter still has, or by a click on its        *)
(* paragraph.  The handler then runs to its next await.                    *)
(***************************************************************************)
NarrationDone(t, byClick) ==
  /\ th[t].pc \in {"narrPrimary", "narrOutcome", "narrFallback"}
  /\ IF byClick THEN screen = "gameplay" ELSE typewriter = t
  /\ LET r == th[t]
     IN  \/ /\ r.pc = "narrPrimary"
            /\ LET se == SideEffects(game, r.data)
               IN  IF se.threw
                     THEN /\ game' = se.game
                          /\ Caught(t)
                          /\ UNCHANGED <<screen, saves>>
                     ELSE IF IsDiceEvent(r.data.event)
                       THEN /\ game' = se.game
                            /\ th' = [th EXCEPT ![t] = [r EXCEPT !.pc = "awaitDice"]]
                            /\ UNCHANGED <<isProcessing, inputDisabled,
                                           screen, saves>>
                       ELSE TurnTail(t, se.game, r, inputDisabled)
            /\ typewriter' = ""
         \/ /\ r.pc = "narrOutcome"
            /\ LET se == SideEffects(game, r.outResp)
               IN  IF se.threw
                     THEN /\ game' = se.game
                          /\ th' = [th EXCEPT ![t] = [r EXCEPT !.pc = "narrFallback"]]
                          /\ inputDisabled' = FALSE
                          /\ typewriter' = t
                          /\ UNCHANGED <<isProcessing, screen, saves>>
                     ELSE /\ TurnTail(t, se.game,
                                      [r EXCEPT !.hasOutcome = TRUE], inputDisabled)
                          /\ typewriter' = ""
         \/ /\ r.pc = "narrFallback"
            /\ TurnTail(t, game, r, inputDisabled)
            /\ typewriter' = ""
  /\ diceFirst' = IF th'[t].pc = "awaitDice" /\ ~InputHidden THEN t ELSE diceFirst
  /\ clickable' = IF byClick THEN clickable ELSE Min(clickable + 1, MaxClickable)
  /\ UNCHANGED <<probe, games, begin, isRolling, autoSaveInterval>>

(***************************************************************************)
(* A click on the paragraph of a narration that its timer has resolved:    *)
(* its clickHandler is still attached (ui.js 119-125) and calls            *)
(* cancelTypewriter, which clears the timer of the narration now running.  *)
(* clickable counts the paragraphs whose handler is still attached, up to  *)
(* MaxClickable of them.                                                   *)
(***************************************************************************)
StrayClick ==
  /\ screen = "gameplay"
  /\ clickable > 0
  /\ typewriter # ""
  /\ clickable' = clickable - 1
  /\ typewriter' = ""
  /\ UNCHANGED <<probe, diceFirst, saves, game, games, isProcessing, th, begin, screen,
                 inputDisabled, isRolling, autoSaveInterval>>

(***************************************************************************)
(* The dice button is clicked: every pending handleClick runs, in the      *)
(* order the listeners were added (diceFirst is the turn that added its    *)
(* listener first).  Dice.roll draws and resolves the check at once and    *)
(* resolves its promise after the animation; called while a roll is        *)
(* animating it never resolves.                                            *)
(***************************************************************************)
DiceClick(draw) ==
  /\ screen = "gameplay"
  /\ InputHidden
  /\ LET first == diceFirst
         c == game.character
         Rolled(r) ==
           [r EXCEPT !.pc = "rolling",
                     !.dice = ResolveDiceCheck(draw, c.stats[r.data.event.stat],
                                r.data.event.difficulty,
                                c.abilityStat = r.data.event.stat /\ c.abilityName # "")]
     IN  /\ th' = [t \in Threads |->
                     IF th[t].pc # "awaitDice" THEN th[t]
                     ELSE IF t = first /\ ~isRolling THEN Rolled(th[t])
                     ELSE [th[t] EXCEPT !.pc = "hung"]]
         /\ isRolling' = TRUE
         /\ diceFirst' = ""
         /\ UNCHANGED <<probe, saves, clickable, game, games, isProcessing, begin,
                        screen, inputDisabled, typewriter, autoSaveInterval>>

(***************************************************************************)
(* handleDiceEvent lines 238-259: the roll has resolved; the mechanical    *)
(* HP and XP are applied, then the outcome narration is requested.         *)
(* hitZero remembers, for the rest of the turn, that applyHP left the HP   *)
(* at 0 before applyXP ran.                                                *)
(***************************************************************************)
Mechanical(c, event, dice) ==
  LET hpLost == IF dice.passed THEN 0 ELSE CalculateHPLoss(event)
      xpGained == CalculateXP(dice.passed, event.difficulty)
      lost == hpLost # NaN /\ hpLost < 0
      c1 == IF lost THEN ApplyHP(c, hpLost) ELSE c
  IN  [character |-> ApplyXP(c1, xpGained), hpLost |-> hpLost,
       xpGained |-> xpGained, hitZero |-> (lost /\ c1.hp = 0)]

(* Faulty variant: the outcome narration is requested before the           *)
(* mechanical HP and XP are applied.                                       *)
RollDoneLate(t) ==
  /\ th[t].pc = "rolling"
  /\ LET m == Mechanical(game.character, th[t].data.event, th[t].dice)
     IN  th' = [th EXCEPT ![t] = [@ EXCEPT !.pc = "awaitOutcome",
                                           !.hpLost = m.hpLost,
                                           !.xpGained = m.xpGained,
                                           !.hitZero = m.hitZero,
                                           !.outReq = "dice result"]]
  /\ isRolling' = FALSE
  /\ inputDisabled' = TRUE
  /\ UNCHANGED <<probe, diceFirst, game, saves, clickable, games, isProcessing, begin, screen,
                 typewriter, autoSaveInterval>>

RollDone(t) ==
  /\ th[t].pc = "rolling"
  /\ LET m == Mechanical(game.character, th[t].data.event, th[t].dice)
     IN  /\ game' = [game EXCEPT !.character = m.character]
         /\ th' = [th EXCEPT ![t] = [@ EXCEPT !.pc = "awaitOutcome",
                                                !.hpLost = m.hpLost,
                                                !.xpGained = m.xpGained,
                                                !.hitZero = m.hitZero,
                                                !.outReq = "dice result"]]
  /\ isRolling' = FALSE
  /\ inputDisabled' = TRUE
  /\ UNCHANGED <<probe, diceFirst, saves, clickable, games, isProcessing, begin, screen,
                 typewriter, autoSaveInterval>>

OutcomeFail(t) ==
  /\ th[t].pc = "awaitOutcome"
  /\ th' = [th EXCEPT ![t] = [@ EXCEPT !.pc = "narrFallback"]]
  /\ inputDisabled' = FALSE
  /\ typewriter' = t
  /\ UNCHANGED <<probe, diceFirst, saves, clickable, game, games, isProcessing, begin, screen,
                 isRolling, autoSaveInterval>>

OutcomeReturn(t, raw) ==
  /\ th[t].pc = "awaitOutcome"
  /\ th' = [th EXCEPT ![t] = [@ EXCEPT !.pc = "narrOutcome",
                                         !.outResp = ValidateDiceOutcome(raw).data]]
  /\ inputDisabled' = FALSE
  /\ typewriter' = t
  /\ UNCHANGED <<probe, diceFirst, saves, clickable, game, games, isProcessing, begin, screen,
                 isRolling, autoSaveInterval>>

(***************************************************************************)
(* autoSave (game-engine.js 390-405): DB.updateSaveSlot settles.           *)
(***************************************************************************)
AutoSaveDone(t, saved) ==
  /\ th[t].pc = "autosave"
  /\ game' = IF saved THEN [game EXCEPT !.lastSaveTurn = game.turnCount] ELSE game
  /\ Returned(t, inputDisabled)
  /\ UNCHANGED <<probe, diceFirst, saves, clickable, games, begin, screen, typewriter,
                 isRolling, autoSaveInterval>>

(***************************************************************************)
(* manualSave (game-engine.js 407-433), called without await by endGame:   *)
(* the DB call of the i-th pending save settles.  The slot id goes to the  *)
(* game object captured at the call, markSaved to the current one.         *)
(***************************************************************************)
RemoveAt(seq, i) == SubSeq(seq, 1, i - 1) \o SubSeq(seq, i + 1, Len(seq))

ManualSaveDone(i, saved) ==
  /\ i \in 1..Len(saves)
  /\ saves' = RemoveAt(saves, i)
  /\ game' = IF ~saved THEN game
             ELSE LET g1 == IF saves[i].create /\ saves[i].gid = game.gid
                              THEN [game EXCEPT !.saveSlotId = game.gid] ELSE game
                  IN  [g1 EXCEPT !.lastSaveTurn = g1.turnCount]
  /\ UNCHANGED <<probe, diceFirst, games, isProcessing, th, begin, screen, inputDisabled,
                 typewriter, clickable, isRolling, autoSaveInterval>>

(***************************************************************************)
(* The turn engine: every step of a turn, with the generator's answers     *)
(* and the outcomes of the database calls drawn from the given sets.       *)
(***************************************************************************)
Engine(primaryRaws, outcomeRaws, saveResults) ==
  \/ SubmitDropped
  \/ SubmitAccepted
  \/ \E t \in Threads : PrimaryFail(t)
  \/ \E t \in Threads, raw \in primaryRaws : PrimaryReturn(t, raw)
  \/ \E t \in Threads, byClick \in BOOLEAN : NarrationDone(t, byClick)
  \/ StrayClick
  \/ \E draw \in Draws : DiceClick(draw)
  \/ \E t \in Threads : RollDone(t)
  \/ \E t \in Threads : OutcomeFail(t)
  \/ \E t \in Threads, raw \in outcomeRaws : OutcomeReturn(t, raw)
  \/ \E t \in Threads, saved \in saveResults : AutoSaveDone(t, saved)
  \/ \E i \in 1..2, saved \in saveResults : ManualSaveDone(i, saved)

(***************************************************************************)
(* Spec: the first session of the application, from the main menu through  *)
(* character creation to the end of the session, with a database that      *)
(* answers (SpecNav below covers the failing database calls).              *)
(***************************************************************************)
Next ==
  \/ (games = 0 /\ MenuNewGame)
  \/ \E choice \in CharChoices : BeginClick(choice)
  \/ \E created \in {TRUE} : BeginDone(created)
  \/ \E v \in AutoSaveChoices : SetAutoSave(v)
  \/ Engine(PrimaryRaws, OutcomeRaws, {TRUE})

Spec == Init /\ [][Next]_vars

(***************************************************************************)
(* SpecNav: several sessions in a row; the player may quit to the menu in  *)
(* the middle of a turn and start a new game while the turn is suspended,  *)
(* and a database call may fail.                                           *)
(***************************************************************************)
NavPrimaryRaws ==
  {RawObject(NoEvent, 0, 0, FALSE, "", "", NoNpc, << >>),
   RawObject(NoEvent, -100, 0, FALSE, "", "", NoNpc, << >>),
   RawObject(NoEvent, 0, 0, TRUE, "", "", NoNpc, << >>),
   RawObject(HardCheck, 0, 0, FALSE, "", "", NoNpc, << >>)}

NavOutcomeRaws == {RawObject(NoEvent, 0, 0, FALSE, "", "", NoNpc, << >>)}

NextNav ==
  \/ MenuNewGame
  \/ \E choice \in CharChoices : BeginClick(choice)
  \/ \E created \in BOOLEAN : BeginDone(created)
  \/ \E v \in AutoSaveChoices : SetAutoSave(v)
  \/ Quit
  \/ EpilogueMenu
  \/ Engine(NavPrimaryRaws, NavOutcomeRaws, BOOLEAN)

SpecNav == Init /\ [][NextNav]_vars

(***************************************************************************)
(* The Save item of the gameplay drawer (utils.js 580-583) calls           *)
(* manualSave, whatever the turn engine is doing.  At most MaxPending      *)
(* saves wait for the database at a time.                                  *)
(***************************************************************************)
MaxPending == 1

DrawerSave ==
  /\ screen = "gameplay"
  /\ Len(saves) < MaxPending
  /\ saves' = Append(saves, PendingSave(game))
  /\ UNCHANGED <<probe, diceFirst, clickable, game, games, isProcessing, th, begin,
                 screen, inputDisabled, typewriter, isRolling, autoSaveInterval>>

(***************************************************************************)
(* SpecSave: the first session with the drawer's Save item and a database  *)
(* that may reject any call.                                               *)
(***************************************************************************)
SavePrimaryRaws ==
  {RawObject(NoEvent, 0, 0, FALSE, "", "", NoNpc, << >>),
   RawObject(NoEvent, 0, 0, TRUE, "", "", NoNpc, << >>),
   RawObject(HardCheck, 0, 0, FALSE, "potion", "", NoNpc, << >>)}

SaveOutcomeRaws == {RawObject(NoEvent, 0, 0, FALSE, "", "", NoNpc, << >>)}

NextSave ==
  \/ (games = 0 /\ MenuNewGame)
  \/ \E choice \in CharChoices : BeginClick(choice)
  \/ \E created \in BOOLEAN : BeginDone(created)
  \/ \E v \in AutoSaveChoices : SetAutoSave(v)
  \/ DrawerSave
  \/ Engine(SavePrimaryRaws, SaveOutcomeRaws, BOOLEAN)

SpecSave == Init /\ [][NextSave]_vars

(***************************************************************************)
(* FairSpec: the first session under the scheduling the platform           *)
(* guarantees.  Every pending generator or database call settles, every   *)
(* running timer (typewriter interval, dice animation) fires, and the      *)
(* player clicks the dice button while it is shown.  Nothing obliges the   *)
(* player to click a narration, to submit or to open a menu.               *)
(***************************************************************************)
Settles(t) ==
  \/ PrimaryFail(t)
  \/ \E raw \in PrimaryRaws : PrimaryReturn(t, raw)
  \/ OutcomeFail(t)
  \/ \E raw \in OutcomeRaws : OutcomeReturn(t, raw)
  \/ AutoSaveDone(t, TRUE)

TimerFires(t) == NarrationDone(t, FALSE) \/ RollDone(t)

DiceTrigger == \E draw \in Draws : DiceClick(draw)

FairSpec ==
  /\ Init
  /\ [][Next]_vars
  /\ \A t \in Threads : WF_vars(Settles(t)) /\ WF_vars(TimerFires(t))
  /\ WF_vars(DiceTrigger)
  /\ WF_vars(\E created \in {TRUE} : BeginDone(created))
  /\ WF_vars(\E i \in 1..2 : ManualSaveDone(i, TRUE))

(***************************************************************************)
(* SpecDegraded: the first session with a generator whose answers may be   *)
(* text that does not parse.                                               *)
(***************************************************************************)
DegradedPrimaryRaws ==
  {RawText,
   RawObject(NoEvent, -92, 95, FALSE, "potion", "", Npc("Bob", 0), << >>),
   RawObject(NoEvent, -100, 0, FALSE, "", "", NoNpc, << >>),
   RawObject(HardCheck, 0, 0, FALSE, "", "", NoNpc, << >>)}

DegradedOutcomeRaws == {RawText, RawObject(NoEvent, 0, 0, FALSE, "", "", NoNpc, << >>)}

NextDegraded ==
  \/ (games = 0 /\ MenuNewGame)
  \/ \E choice \in CharChoices : BeginClick(choice)
  \/ \E created \in {TRUE} : BeginDone(created)
  \/ \E v \in AutoSaveChoices : SetAutoSave(v)
  \/ Engine(DegradedPrimaryRaws, DegradedOutcomeRaws, {TRUE})

SpecDegraded == Init /\ [][NextDegraded]_vars

(***************************************************************************)
(* SpecUnit: one call of one function of the engine.  The initial state    *)
(* draws the function and its arguments; the single step applies it and    *)
(* records what it returned.  The application state is left alone.         *)
(***************************************************************************)
(***************************************************************************)
(* Persistence of a session (state.js): state.game with the fields the     *)
(* engine leaves alone, the snapshot buildSaveState takes of it, the slot  *)
(* row the store returns, loadFromSave and markSaved.                      *)
(***************************************************************************)
(* state.game.world: the fields resetGame creates (name stands for them)    *)
(* and, when the world generator returned one, the optional narratorStyle  *)
(* that Object.assign copied from its response (utils.js 429-430).         *)
World(name) == [name |-> name]

StyledWorld(name, style) == [name |-> name, narratorStyle |-> style]

Session(g, world, summary, history) ==
  g @@ [world |-> world, storySummary |-> summary, storyHistory |-> history]

BuildSaveState(g) ==
  [world |-> g.world, character |-> g.character, keyNpcs |-> g.keyNpcs,
   items |-> g.items,
   recentTurns |-> LastN(g.recentTurns, RECENT_TURNS_TO_KEEP),
   storySummary |-> g.storySummary, turnCount |-> g.turnCount]

SaveSlot(id, status, gs) ==
  [id |-> id, status |-> status, hasState |-> TRUE, game_state |-> gs]

(* Faulty variant: the turn counter is not restored. *)
LoadFromSaveKeepsCount(g, saveData) ==
  LET gs == saveData.game_state
  IN  [g EXCEPT !.saveSlotId = saveData.id, !.status = saveData.status,
                !.world = gs.world @@ g.world, !.character = gs.character,
                !.keyNpcs = gs.keyNpcs, !.items = gs.items,
                !.recentTurns = gs.recentTurns,
                !.storySummary = gs.storySummary,
                !.lastSaveTurn = gs.turnCount,
                !.storyHistory = gs.recentTurns]

LoadFromSave(g, saveData) ==
  LET gs == saveData.game_state
      g1 == [g EXCEPT !.saveSlotId = saveData.id, !.status = saveData.status]
  IN  IF ~saveData.hasState THEN g1
      ELSE [g1 EXCEPT !.world = gs.world @@ g.world,
                      !.character = gs.character,
                      !.keyNpcs = gs.keyNpcs, !.items = gs.items,
                      !.recentTurns = gs.recentTurns,
                      !.storySummary = gs.storySummary,
                      !.turnCount = gs.turnCount,
                      !.lastSaveTurn = gs.turnCount,
                      !.storyHistory = gs.recentTurns]

MarkSaved(g) == [g EXCEPT !.lastSaveTurn = g.turnCount]

(* The session once the save that stored its snapshot in slot id returned. *)
SavedAs(g, id) == MarkSaved([g EXCEPT !.saveSlotId = id])

(***************************************************************************)
(* What the next generator request is built from: buildWorldContext and    *)
(* the messages buildGameMessages derives from the summary, the retained   *)
(* turns and the player's action.                                          *)
(***************************************************************************)
RECURSIVE TurnMessages(_)
TurnMessages(turns) ==
  IF turns = << >> THEN << >>
  ELSE LET t == Head(turns)
       IN  (IF t.playerAction # "" THEN <<[role |-> "user", content |-> t.playerAction]>>
            ELSE << >>)
           \o <<[role |-> "assistant", content |-> t.aiResponse]>>
           \o (IF t.diceOutcomeResponse # NoData
                 THEN <<[role |-> "user", content |-> t.diceOutcomeRequest],
                        [role |-> "assistant", content |-> t.diceOutcomeResponse]>>
                 ELSE << >>)
           \o TurnMessages(Tail(turns))

BuildWorldContext(g) ==
  [world |-> g.world, character |-> g.character, items |-> g.items,
   keyNpcs |-> g.keyNpcs]

(* Faulty variant: the current action is put before the retained turns. *)
BuildGameMessagesActionFirst(g, playerAction) ==
  (IF g.storySummary # "" THEN <<[role |-> "system", content |-> g.storySummary]>>
   ELSE << >>)
  \o <<[role |-> "user", content |-> playerAction]>>
  \o TurnMessages(g.recentTurns)

BuildGameMessages(g, playerAction) ==
  (IF g.storySummary # "" THEN <<[role |-> "system", content |-> g.storySummary]>>
   ELSE << >>)
  \o TurnMessages(g.recentTurns)
  \o <<[role |-> "user", content |-> playerAction]>>

GeneratorContext(g, playerAction) ==
  [system |-> BuildWorldContext(g), messages |-> BuildGameMessages(g, playerAction)]

engineVars == <<game, isProcessing, th, begin, screen, inputDisabled, typewriter,
                clickable, diceFirst, isRolling, autoSaveInterval, games, saves>>

D20 == 1..20

UnitCharacters ==
  {NewCharacter,
   [NewCharacter EXCEPT !.xp = 90],
   [NewCharacter EXCEPT !.hp = 3, !.xp = 95],
   [NewCharacter EXCEPT !.level = 2, !.xp = 140, !.xpToNext = 150,
                        !.maxHp = 110, !.hp = 0]}

UnitAmounts == {5, 20, 21, 110, 250, 800}

UnitEvents ==
  {Event(type, "STR", d, sev) :
     type \in {"stat_check", "combat"}, d \in 1..20, sev \in {"basic", "important"}}

UnitDeclared ==
  {[NoData EXCEPT !.event = ev, !.xp_gained = xp, !.hp_change = hp] :
     ev \in {NoEvent, HardCheck} \cup
            {Event(type, "STR", 5, "basic") :
               type \in {"item_found", "npc_encounter", "story_end"}},
     xp \in {-50, 0, 20, 250}, hp \in {-200, -10, 0, 15}}

UnitRaws ==
  {RawText, RawNull, RawScalar}
  \cup {[RawObject(Event(type, stat, d, sev), 0, 0, FALSE, "", "", NoNpc, << >>)
           EXCEPT !.story = story] :
          type \in ValidTypes \cup {"none", "bogus"}, stat \in {"STR", "LUCK"},
          d \in (-3..25) \cup {NotANumber}, sev \in {"basic", "important", "epic"},
          story \in {"s", ""}}

UnitNames == <<"Bob", "n2", "n3", "n4", "n5", "n6", "n7", "n8", "n9", "n10">>

UnitNpcLists ==
  {[i \in 1..n |-> [name |-> UnitNames[i], relationship |-> 0]] : n \in 0..MAX_KEY_NPCS}
  \cup {<<[name |-> Undefined, relationship |-> 0]>>}

UnitNpcData ==
  {Npc(name, rel) : name \in {"Bob", "bob", "n2", "n11", Undefined}, rel \in {0, 150}}

(***************************************************************************)
(* One whole turn on session g, as processAIResponse (with handleDiceEvent *)
(* for a dice event) leaves it: r is the turn's record once its calls have *)
(* settled.  Turn i of UnitTurn is one of four kinds of turn.              *)
(***************************************************************************)
NextTurn(g, r) ==
  LET se == SideEffects(g, r.data).game
      gm == IF IsDiceEvent(r.data.event)
              THEN LET so == IF r.hasOutcome THEN SideEffects(se, r.outResp).game
                             ELSE se
                   IN  [so EXCEPT !.character =
                          Mechanical(se.character, r.data.event, r.dice).character]
              ELSE se
      g2 == CompleteTurn(gm, r)
  IN  [g2 EXCEPT !.storyHistory = Append(g.storyHistory, TurnEntry(r))]

UnitTurn(g, i) ==
  LET plain == [IdleThread EXCEPT !.action = "act"]
  IN  CASE i = 1 ->
             [plain EXCEPT !.data = [NoData EXCEPT !.story = "s", !.item_gained = "potion",
                                                    !.new_npc = Npc("Bob", 0),
                                                    !.hp_change = -10, !.xp_gained = 95]]
        [] i = 2 ->
             [plain EXCEPT !.data = [NoData EXCEPT !.story = "s", !.item_lost = "potion",
                                                    !.npc_updates = <<[name |-> "Bob", change |-> 5]>>,
                                                    !.xp_gained = 250]]
        [] i = 3 ->
             [plain EXCEPT !.data = [NoData EXCEPT !.story = "s", !.event = HardCheck],
                           !.dice = ResolveDiceCheck(1, g.character.stats["STR"],
                                                     HardCheck.difficulty, FALSE),
                           !.outReq = "outcome", !.hasOutcome = TRUE,
                           !.outResp = [NoData EXCEPT !.story = "s", !.item_gained = "key"]]
        [] OTHER ->
             [plain EXCEPT !.data = [NoData EXCEPT !.story = "s", !.game_end = TRUE]]

UnitTurnKinds == 1..4

RECURSIVE AfterTurns(_, _)
AfterTurns(g, n) ==
  IF n = 0 THEN g
  ELSE LET before == AfterTurns(g, n - 1)
       IN  NextTurn(before, UnitTurn(before, ((n - 1) % 3) + 1))

(* Sessions between turns: just created, after 1, 2 and 6 turns, saved at  *)
(* turn 2, and after 1 turn without a save slot.                           *)
CreatedSession ==
  Session([ResetGameValue(1) EXCEPT !.saveSlotId = 1], World("w"), "", << >>)

UnitSessions ==
  {AfterTurns(CreatedSession, n) : n \in {0, 1, 2, 6}}
  \cup {MarkSaved(AfterTurns(CreatedSession, 2))}
  \cup {[AfterTurns(CreatedSession, 1) EXCEPT !.saveSlotId = 0]}

(* First responses with an effect on the inventory, the NPC list, the HP   *)
(* and the XP: with an event of no known type, with no event, with a check *)
(* whose difficulty is no number, and with a hard check.                   *)
UnitResponses ==
  {RawObject(ev, -10, 20, FALSE, "potion", "", Npc("Bob", 0), << >>) :
     ev \in {Event("bogus", "STR", 5, "important"), NoEvent,
             Event("combat", "STR", NotANumber, "important"), HardCheck}}

(* Sessions a request is built for: those of UnitSessions, the same with   *)
(* the opening turn (null player action) as first retained turn, and the   *)
(* same as loaded from a save record that holds a summary.                 *)
MessageSessions ==
  LET early == {AfterTurns(CreatedSession, n) : n \in 1..RECENT_TURNS_TO_KEEP}
      opened == {[g EXCEPT !.recentTurns[1].playerAction = ""] : g \in early}
      played == UnitSessions \cup opened
  IN  played \cup {[g EXCEPT !.storySummary = "sum"] : g \in played}

(* What loadFromSave may find in state.game: the session resetGame built   *)
(* when the application started, or the session of a game played or loaded *)
(* before, whose generated world may hold a narratorStyle.  Save records:   *)
(* the rows the store holds for such sessions.                             *)
FreshSession == Session(ResetGameValue(0), World(""), "", << >>)

StyledSessions == {[g EXCEPT !.world = StyledWorld("v", "noir")] : g \in UnitSessions}

PriorSessions == {FreshSession} \cup UnitSessions \cup StyledSessions

SaveRecords ==
  {SaveSlot(IF g.saveSlotId # 0 THEN g.saveSlotId ELSE 2, g.status, BuildSaveState(g)) :
     g \in UnitSessions \cup StyledSessions}

Probe(fn, in) == [fn |-> fn, in |-> in, done |-> FALSE, out |-> << >>]

(* Histories: empty after resetGame, or the loaded window after loadFromSave *)
(* (storyHistory = [...recentTurns]).  Entries are numbered in order.        *)
MaxHistory == 7

UnitHistories ==
  {[storyHistory |-> [i \in 1..n |-> i], recentTurns |-> [i \in 1..n |-> i]] :
     n \in 0..RECENT_TURNS_TO_KEEP}

ProbeInputs ==
  {Probe("resolveDiceCheck", in) :
     in \in [roll : D20, statValue : 0..MAX_STAT_VALUE, difficulty : 0..21,
             special : BOOLEAN]}
  \cup {Probe("handleDiceEvent", in) :
     in \in [event : UnitEvents, roll : D20, statValue : {0, MAX_STAT_VALUE},
             special : BOOLEAN, character : UnitCharacters]}
  \cup {Probe("applyXP", in) : in \in [character : UnitCharacters, amount : UnitAmounts]}
  \cup {Probe("declared", in) : in \in [character : UnitCharacters, data : UnitDeclared]}
  \cup {Probe(fn, raw) :
     fn \in {"validateGameResponse", "validateDiceOutcome", "validateWorldResponse"},
     raw \in UnitRaws}
  \cup {Probe("addNPC", in) : in \in [npcs : UnitNpcLists, npcData : UnitNpcData]}
  \cup {[Probe("addStoryEntry", st) EXCEPT !.out = st] : st \in UnitHistories}
  \cup {Probe("saveLoad", in) : in \in [game : UnitSessions, into : UnitSessions]}
  \cup {Probe("buildGameMessages", in) :
     in \in [game : MessageSessions, playerAction : {"act", "look"}]}
  \cup {Probe("processAIResponse", in) :
     in \in [game : UnitSessions, raw : UnitResponses, roll : {1, 20}]}
  \cup {Probe("loadFromSave", in) : in \in [saveData : SaveRecords, into : PriorSessions]}

InitUnit == EngineInit /\ probe \in ProbeInputs

Returns(fn, out) ==
  /\ probe.fn = fn
  /\ ~probe.done
  /\ probe' = [probe EXCEPT !.done = TRUE, !.out = out]
  /\ UNCHANGED engineVars

CallResolveDiceCheck ==
  Returns("resolveDiceCheck",
          ResolveDiceCheck(probe.in.roll, probe.in.statValue,
                           probe.in.difficulty, probe.in.special))

(* Dice.roll resolves the check, handleDiceEvent lines 238-248 apply it. *)
CallHandleDiceEvent ==
  Returns("handleDiceEvent",
          LET dice == ResolveDiceCheck(probe.in.roll, probe.in.statValue,
                                       probe.in.event.difficulty, probe.in.special)
              m == Mechanical(probe.in.character, probe.in.event, dice)
          IN  [dice |-> dice, hpLost |-> m.hpLost, xpGained |-> m.xpGained,
               character |-> m.character])

CallApplyXP ==
  Returns("applyXP", ApplyXP(probe.in.character, probe.in.amount))

(* processAIResponse lines 177-181 on a validated response. *)
CallDeclared ==
  Returns("declared", DeclaredDeltas(probe.in.character, probe.in.data))

CallValidateGameResponse ==
  Returns("validateGameResponse",
          LET r == ValidateGameResponse(probe.in)
          IN  [threw |-> r.threw, valid |-> r.valid, hasData |-> ~r.threw,
               data |-> r.data, errors |-> r.errors])

CallValidateDiceOutcome ==
  Returns("validateDiceOutcome",
          LET r == ValidateDiceOutcome(probe.in)
          IN  [threw |-> FALSE, valid |-> r.valid, hasData |-> TRUE, data |-> r.data])

CallValidateWorldResponse ==
  Returns("validateWorldResponse",
          LET r == ValidateWorldResponse(probe.in)
          IN  [threw |-> FALSE, valid |-> r.valid, hasData |-> r.data.present,
               data |-> r.data])

CallAddNPC ==
  Returns("addNPC", AddNPC(probe.in.npcs, probe.in.npcData))

(* One more completed turn is recorded; repeated, a sequence of turns. *)
CallAddStoryEntry ==
  /\ probe.fn = "addStoryEntry"
  /\ Len(probe.out.storyHistory) < MaxHistory
  /\ probe' = [probe EXCEPT
                 !.done = TRUE,
                 !.out = AddStoryEntryState(probe.out, Len(probe.out.storyHistory) + 1)]
  /\ UNCHANGED engineVars

(***************************************************************************)
(* A save of session game (autoSave or manualSave: the snapshot is stored  *)
(* in the session's slot, or in a new slot when it has none) followed by a *)
(* load of that slot (Continue in the load modal) while state.game is      *)
(* into, and then each kind of next turn on the loaded session.            *)
(***************************************************************************)
CallSaveLoad ==
  Returns("saveLoad",
          LET g == probe.in.game
              slot == IF g.saveSlotId # 0
                        THEN SaveSlot(g.saveSlotId, g.status, BuildSaveState(g))
                        ELSE SaveSlot(2, "active", BuildSaveState(g))
              loaded == LoadFromSave(probe.in.into, slot)
          IN  [slot |-> slot, loaded |-> loaded,
               context |-> GeneratorContext(loaded, "act"),
               next |-> [i \in UnitTurnKinds |-> NextTurn(loaded, UnitTurn(loaded, i))]])

(***************************************************************************)
(* A turn from the validation of its first response to its completion      *)
(* (handlePlayerAction 99-101, processAIResponse), the outcome call of a   *)
(* dice event failing.                                                     *)
(***************************************************************************)
TurnRecord(g, data, roll) ==
  LET c == g.character
      e == data.event
  IN  [IdleThread EXCEPT
         !.action = "act",
         !.data = data,
         !.dice = IF IsDiceEvent(e)
                    THEN ResolveDiceCheck(roll, c.stats[e.stat], e.difficulty,
                                          c.abilityStat = e.stat /\ c.abilityName # "")
                    ELSE NoDice]

CallProcessAIResponse ==
  Returns("processAIResponse",
          LET data == ValidateGameResponse(probe.in.raw).data
              r == TurnRecord(probe.in.game, data, probe.in.roll)
          IN  [data |-> data, rollRequested |-> IsDiceEvent(data.event),
               dice |-> r.dice, game |-> NextTurn(probe.in.game, r)])

CallBuildGameMessages ==
  Returns("buildGameMessages",
          BuildGameMessages(probe.in.game, probe.in.playerAction))

(***************************************************************************)
(* Continue in the load modal (utils.js 318-324): loadFromSave(slot) on    *)
(* state.game as it is, then the context of the next generator request.    *)
(***************************************************************************)
CallLoadFromSave ==
  Returns("loadFromSave",
          LET loaded == LoadFromSave(probe.in.into, probe.in.saveData)
          IN  [loaded |-> loaded, context |-> GeneratorContext(loaded, "act")])

NextUnit ==
  \/ CallResolveDiceCheck
  \/ CallHandleDiceEvent
  \/ CallApplyXP
  \/ CallDeclared
  \/ CallValidateGameResponse
  \/ CallValidateDiceOutcome
  \/ CallValidateWorldResponse
  \/ CallAddNPC
  \/ CallAddStoryEntry
  \/ CallSaveLoad
  \/ CallProcessAIResponse
  \/ CallBuildGameMessages
  \/ CallLoadFromSave

SpecUnit == InitUnit /\ [][NextUnit]_vars

Done(fn) == probe.fn = fn /\ probe.done

(***************************************************************************)
(* The while loop of applyXP (game-engine.js 377-385), one iteration per   *)
(* step.  The working character is probe.out; pc is "add" before           *)
(* char.xp += amount and "test" at the loop condition.  MaxLevel caps the  *)
(* level a run of the loop may reach.                                      *)
(***************************************************************************)
MaxLevel == 300

(* Faulty variant: the threshold is not taken off the XP. *)
LevelUpKeepsXp(c) ==
  [c EXCEPT !.level = c.level + 1,
            !.xpToNext = (c.xpToNext * 3) \div 2,
            !.maxHp = c.maxHp + 10,
            !.hp = Min(c.hp + 10, c.maxHp + 10)]

LevelUp(c) ==
  [c EXCEPT !.xp = c.xp - c.xpToNext,
            !.level = c.level + 1,
            !.xpToNext = (c.xpToNext * 3) \div 2,
            !.maxHp = c.maxHp + 10,
            !.hp = Min(c.hp + 10, c.maxHp + 10)]

LoopCharacters ==
  {[NewCharacter EXCEPT !.xp = xp, !.xpToNext = next, !.hp = hp] :
     xp \in {0, 1}, next \in {1, 2, 3, 100}, hp \in {0, 100}}

LoopAmounts == {-5, 0, 1, 7, 30, 99, 250}

InitLoop ==
  /\ EngineInit
  /\ probe \in {[fn |-> "applyXPLoop", in |-> [character |-> c, amount |-> a],
                 done |-> FALSE, out |-> [pc |-> "add", character |-> c]] :
                  c \in LoopCharacters, a \in LoopAmounts}

LoopAdd ==
  /\ ~probe.done
  /\ probe.out.pc = "add"
  /\ probe' = [probe EXCEPT !.out.pc = "test",
                            !.out.character.xp = @ + probe.in.amount]
  /\ UNCHANGED engineVars

LoopIterate ==
  /\ ~probe.done
  /\ probe.out.pc = "test"
  /\ probe.out.character.xp >= probe.out.character.xpToNext
  /\ probe.out.character.level < MaxLevel
  /\ probe' = [probe EXCEPT !.out.character = LevelUp(@)]
  /\ UNCHANGED engineVars

LoopExit ==
  /\ ~probe.done
  /\ probe.out.pc = "test"
  /\ probe.out.character.xp < probe.out.character.xpToNext
  /\ probe' = [probe EXCEPT !.done = TRUE]
  /\ UNCHANGED engineVars

NextLoop == LoopAdd \/ LoopIterate \/ LoopExit

(* The loop is synchronous code: a step that can be taken is taken. *)
SpecLoop == InitLoop /\ [][NextLoop]_vars /\ WF_vars(NextLoop)

(***************************************************************************)
(* Steps of a turn, recognised by what they do to the thread.              *)
(***************************************************************************)
InFlight(t) == th[t].pc # "idle"

Steps(t) == th'[t] # th[t]

Accepts == th["p"].pc = "idle" /\ th'["p"].pc = "awaitPrimary"

Narrating(t) == th[t].pc \in {"narrPrimary", "narrOutcome", "narrFallback"}

Completes(t) ==
  /\ Narrating(t)
  /\ th'[t].pc \in {"idle", "autosave"}
  /\ game'.turnCount = game.turnCount + 1

Declares(t) ==
  th[t].data.game_end \/ (th[t].pc = "narrOutcome" /\ th[t].outResp.game_end)

C2_AtMostOneTurnInFlight == ~(InFlight("o") /\ InFlight("p"))

(***************************************************************************)
(* C3: in a dice turn the mechanical HP and XP are applied in the step     *)
(* that issues the outcome-narration call, before the call is made; once   *)
(* the call is issued no later step of the turn changes the character,     *)
(* whether the call succeeds or fails.                                     *)
(***************************************************************************)
C3_DeltasBeforeOutcomeCall ==
  [][\A t \in Threads :
       /\ (th[t].pc = "rolling" /\ th'[t].pc = "awaitOutcome")
            => game'.character =
                 Mechanical(game.character, th[t].data.event, th[t].dice).character
       /\ (th[t].pc \in {"awaitOutcome", "narrOutcome", "narrFallback"} /\ Steps(t))
            => game'.character = game.character]_vars

(* An outcome call in flight after a failed important check cost HP. *)
C3_Witness ==
  \E t \in Threads :
    /\ th[t].pc = "awaitOutcome"
    /\ th[t].hpLost < 0
    /\ game.character.hp < DEFAULT_STARTING_HP

(***************************************************************************)
(* C4: when the outcome-narration call fails, the mechanical deltas stay,  *)
(* the turn is appended with empty outcome request and response, the turn  *)
(* counter is incremented and the termination check still runs.            *)
(***************************************************************************)
C4_OutcomeFailureCompletesTurn ==
  [][\A t \in Threads :
       /\ (th[t].pc = "awaitOutcome" /\ th'[t].pc = "narrFallback")
            => game' = game
       /\ (th[t].pc = "narrFallback" /\ Steps(t))
            => /\ game'.character = game.character
               /\ game'.turnCount = game.turnCount + 1
               /\ game'.recentTurns # << >>
               /\ LET last == game'.recentTurns[Len(game'.recentTurns)]
                  IN  /\ last.diceOutcomeRequest = ""
                      /\ last.diceOutcomeResponse = NoData
               /\ game'.status =
                    IF th[t].data.game_end
                      THEN (IF game.character.hp > 0 THEN "completed" ELSE "failed")
                      ELSE IF game.character.hp <= 0 THEN "failed"
                      ELSE game.status]_vars

(* A completed dice turn whose failed important check cost HP and whose    *)
(* outcome call failed: the turn is retained without outcome.              *)
C4_Witness ==
  /\ game.turnCount = 1
  /\ game.recentTurns # << >>
  /\ LET last == game.recentTurns[Len(game.recentTurns)]
     IN  /\ IsDiceEvent(last.aiResponse.event)
         /\ last.diceOutcomeRequest = ""
  /\ game.character.hp < DEFAULT_STARTING_HP
  /\ \A t \in Threads : ~InFlight(t)

(***************************************************************************)
(* C5: a player turn whose primary call fails mutates nothing: neither the *)
(* submission nor the failure changes the session (character, NPCs, items, *)
(* retained turns, turn counter, lastSaveTurn, status), and the failure    *)
(* releases the guard.                                                     *)
(***************************************************************************)
C5_PrimaryFailureMutatesNothing ==
  [][/\ Accepts => game' = game
     /\ (th["p"].pc = "awaitPrimary" /\ th'["p"].pc = "idle")
          => (game' = game /\ ~isProcessing')]_vars

(* A player turn awaiting its primary call in a session that already has   *)
(* a turn, an NPC and a changed character to preserve.                     *)
C5_Witness ==
  /\ th["p"].pc = "awaitPrimary"
  /\ isProcessing
  /\ game.turnCount > 0
  /\ game.keyNpcs # << >>
  /\ game.character.hp < DEFAULT_STARTING_HP

(***************************************************************************)
(* C6: in a stat_check or combat turn the character (HP, XP, level, max    *)
(* HP) changes only when the roll resolves, and then as a function of the  *)
(* prior character, the roll's verdict, the difficulty and the severity;   *)
(* the hp_change and xp_gained of the primary and outcome responses never  *)
(* reach the character.                                                    *)
(***************************************************************************)
C6_DiceTurnDeltasAreMechanical ==
  [][\A t \in Threads :
       (IsDiceEvent(th[t].data.event) /\ Steps(t))
         => IF th[t].pc = "rolling"
              THEN LET e == th[t].data.event
                       passed == th[t].dice.passed
                       loss == IF passed \/ e.severity # "important"
                                 THEN 0 ELSE (e.difficulty \div 3) + 2
                       xp == IF passed THEN 5 + (e.difficulty \div 2) * 2 ELSE 5
                   IN  game'.character =
                         ApplyXP(ApplyHP(game.character, 0 - loss), xp)
              ELSE game'.character = game.character]_vars

(* A dice turn about to complete whose primary and outcome responses both  *)
(* declare HP and XP changes.                                              *)
C6_Witness ==
  \E t \in Threads :
    /\ th[t].pc = "narrOutcome"
    /\ th[t].data.hp_change # 0 /\ th[t].data.xp_gained # 0
    /\ th[t].outResp.hp_change # 0 /\ th[t].outResp.xp_gained # 0

(***************************************************************************)
(* C7: when a turn completes, a declared game_end (primary or outcome      *)
(* response) makes the session 'completed' if HP > 0 and 'failed'          *)
(* otherwise; with no declared end HP <= 0 makes it 'failed'; otherwise    *)
(* the status stays as it was.                                             *)
(***************************************************************************)
C7_EndResolution ==
  [][\A t \in Threads :
       Completes(t)
         => game'.status =
              IF Declares(t)
                THEN (IF game'.character.hp > 0 THEN "completed" ELSE "failed")
                ELSE IF game'.character.hp <= 0 THEN "failed"
                ELSE game.status]_vars

(* A turn that declared the end with the HP at 0 has completed: the        *)
(* session is 'failed', not 'completed'.                                   *)
C7_Witness ==
  /\ game.status = "failed"
  /\ game.character.hp = 0
  /\ game.recentTurns # << >>
  /\ game.recentTurns[Len(game.recentTurns)].aiResponse.game_end

(***************************************************************************)
(* C8: whenever a loss takes the HP to 0 during a turn (the mechanical     *)
(* loss of a failed important check included), the session is 'failed'     *)
(* when that turn completes.                                               *)
(***************************************************************************)
C8_ZeroHpFailsSession ==
  [][\A t \in Threads :
       (Completes(t) /\ (th[t].hitZero \/ game'.character.hp = 0))
         => game'.status = "failed"]_vars

(***************************************************************************)
(* C9: once the session is 'completed' or 'failed' no submission is        *)
(* accepted: a player turn starts only in an 'active' session.             *)
(***************************************************************************)
C9_EndedSessionAcceptsNothing ==
  [][Accepts => game.status = "active"]_vars

(***************************************************************************)
(* C10: every accepted player turn eventually releases isProcessing,       *)
(* given that generator calls settle and the player clicks the dice        *)
(* button.                                                                 *)
(***************************************************************************)
C10_GuardEventuallyReleased == isProcessing ~> ~isProcessing

C13_ApplyXpLevels ==
  Done("applyXP") =>
    LET Up(c) == [c EXCEPT !.xp = c.xp - c.xpToNext,
                           !.level = c.level + 1,
                           !.xpToNext = (15 * c.xpToNext) \div 10,
                           !.maxHp = c.maxHp + 10,
                           !.hp = IF c.hp + 10 < c.maxHp + 10 THEN c.hp + 10
                                  ELSE c.maxHp + 10]
        Settled(c) == c.xp < c.xpToNext
        c0 == [probe.in.character EXCEPT !.xp = @ + probe.in.amount]
        c1 == Up(c0)
        c2 == Up(c1)
        c3 == Up(c2)
        c4 == Up(c3)
    IN  probe.out = IF Settled(c0) THEN c0
                    ELSE IF Settled(c1) THEN c1
                    ELSE IF Settled(c2) THEN c2
                    ELSE IF Settled(c3) THEN c3
                    ELSE c4

(* {xp:90, xpToNext:100, level:1, maxHp:100, hp:100} with amount 20. *)
C13_Witness ==
  /\ Done("applyXP")
  /\ probe.in.character.xp = 90
  /\ probe.in.character.hp = 100
  /\ probe.in.amount = 20
  /\ probe.out.xp = 10
  /\ probe.out.xpToNext = 150
  /\ probe.out.level = 2
  /\ probe.out.maxHp = 110
  /\ probe.out.hp = 110

(***************************************************************************)
(* C14: after every applyXP call (by itself, by a dice turn, by the        *)
(* declared xp_gained of a non-dice turn) the character's xp is at least 0 *)
(* and below xpToNext.                                                     *)
(***************************************************************************)
C14_XpBelowThreshold ==
  /\ Done("applyXP") => 0 <= probe.out.xp /\ probe.out.xp < probe.out.xpToNext
  /\ Done("declared") => 0 <= probe.out.xp /\ probe.out.xp < probe.out.xpToNext
  /\ Done("handleDiceEvent") =>
       /\ 0 <= probe.out.character.xp
       /\ probe.out.character.xp < probe.out.character.xpToNext

(* A declared xp_gained of 250 has carried a character over two levels. *)
C14_Witness ==
  /\ Done("declared")
  /\ probe.in.data.xp_gained = 250
  /\ probe.out.level >= probe.in.character.level + 2

(***************************************************************************)
(* C15: the dice check result has bonus = statValue + (special ? 5 : 0),   *)
(* total = draw + bonus and passed exactly when total >= difficulty.       *)
(***************************************************************************)
C15_DiceCheck ==
  Done("resolveDiceCheck") =>
    LET bonus == probe.in.statValue + (IF probe.in.special THEN 5 ELSE 0)
    IN  /\ probe.out.bonus = bonus
        /\ probe.out.total = probe.in.roll + bonus
        /\ probe.out.passed <=> (probe.in.roll + bonus >= probe.in.difficulty)
        /\ probe.out.roll = probe.in.roll
        /\ probe.out.difficulty = probe.in.difficulty

(* resolve(draw=10, statValue=3, difficulty=12, special=false). *)
C15_Witness ==
  /\ Done("resolveDiceCheck")
  /\ probe.in = [roll |-> 10, statValue |-> 3, difficulty |-> 12, special |-> FALSE]
  /\ probe.out.bonus = 3
  /\ probe.out.total = 13
  /\ probe.out.passed

(***************************************************************************)
(* C16: each of the three validators, on every raw text (text that does    *)
(* not parse, text that parses to null, to a scalar or to an object),      *)
(* returns without raising and returns a non-null data record.             *)
(***************************************************************************)
C16_ValidatorsNeverRaise ==
  \A fn \in {"validateGameResponse", "validateDiceOutcome", "validateWorldResponse"} :
    Done(fn) => ~probe.out.threw /\ probe.out.hasData

(***************************************************************************)
(* C17: an unparseable primary response validates to valid = false with    *)
(* the raw text as story and no event, and the turn built on it appends    *)
(* its Turn and raises the turn counter while HP, XP, level, inventory,    *)
(* NPC list and status stay as they were.                                  *)
(***************************************************************************)
C17_UnparseableTurnIsInert ==
  [][/\ LET v == ValidateGameResponse(RawText)
        IN  /\ ~v.threw
            /\ ~v.valid
            /\ v.data.story = RawText.text
            /\ v.data.event = NoEvent
     /\ \A t \in Threads :
          (/\ Completes(t)
           /\ th[t].pc = "narrPrimary"
           /\ th[t].data = [NoData EXCEPT !.story = RawText.text])
          => /\ game'.character = game.character
             /\ game'.items = game.items
             /\ game'.keyNpcs = game.keyNpcs
             /\ game'.status = game.status
             /\ game'.turnCount = game.turnCount + 1
             /\ game'.recentTurns # << >>
             /\ game'.recentTurns[Len(game'.recentTurns)].aiResponse = th[t].data
             /\ game'.recentTurns[Len(game'.recentTurns)].playerAction = th[t].action
    ]_vars

(* A second turn, built on unparseable text, has completed in a session    *)
(* that the first turn had left with an item, an NPC, lost HP and XP.      *)
C17_Witness ==
  /\ game.turnCount = 2
  /\ Len(game.recentTurns) = 2
  /\ game.recentTurns[2].aiResponse = [NoData EXCEPT !.story = RawText.text]
  /\ game.character.hp = 8
  /\ game.character.xp = 95
  /\ game.items = <<"potion">>
  /\ Len(game.keyNpcs) = 1
  /\ game.status = "active"

(***************************************************************************)
(* C18: validateGameResponse returns valid = false only when the parse     *)
(* failed; a response that parsed is returned with valid = true, repaired  *)
(* or not.                                                                 *)
(***************************************************************************)
C18_ValidUnlessParseFailed ==
  (Done("validateGameResponse") /\ probe.in.kind # "text" /\ ~probe.out.threw)
    => probe.out.valid

(***************************************************************************)
(* C19: a stat_check / combat event whose difficulty d is below 1 is       *)
(* validated with difficulty 1, one whose d is above 20 with difficulty    *)
(* 20.                                                                     *)
(***************************************************************************)
C19_DifficultyClamped ==
  (/\ Done("validateGameResponse")
   /\ probe.in.kind = "object"
   /\ IsDiceEvent(probe.in.event)
   /\ probe.in.event.difficulty # NotANumber
   /\ (probe.in.event.difficulty < 1 \/ probe.in.event.difficulty > 20))
    => probe.out.data.event.difficulty =
         IF probe.in.event.difficulty < 1 THEN 1 ELSE 20

(***************************************************************************)
(* C20: the NPC list holds at most MAX_KEY_NPCS entries with names that    *)
(* differ under case-insensitive comparison; addNPC on a full list or      *)
(* with an existing name leaves the list as it was, and never changes an   *)
(* existing entry.                                                         *)
(***************************************************************************)
C20_NpcListBounded ==
  Done("addNPC") =>
    LET before == probe.in.npcs
        after == probe.out.npcs
        new == probe.in.npcData.name
        Distinct(npcs) ==
          \A i, j \in 1..Len(npcs) :
            i # j => ToLowerCase(npcs[i].name) # ToLowerCase(npcs[j].name)
        known == \E i \in 1..Len(before) :
                   ToLowerCase(before[i].name) = ToLowerCase(new)
    IN  /\ Distinct(before) /\ Len(before) <= 10
        /\ Distinct(after) /\ Len(after) <= 10
        /\ (Len(before) = 10 \/ known) => after = before
        /\ Len(after) >= Len(before)
        /\ SubSeq(after, 1, Len(before)) = before

(* An eleventh NPC offered to a full list, and "bob" offered after "Bob". *)
C20_Witness ==
  /\ Done("addNPC")
  /\ \/ Len(probe.in.npcs) = 10 /\ probe.in.npcData.name = "n11"
     \/ Len(probe.in.npcs) = 1 /\ probe.in.npcs[1].name = "Bob"
        /\ probe.in.npcData.name = "bob"
  /\ probe.out.npcs = probe.in.npcs

(***************************************************************************)
(* C21: in every reachable state the relationship of every NPC of the      *)
(* list lies in [-100, 100].                                               *)
(***************************************************************************)
C21_RelationshipWithinBounds ==
  \A i \in 1..Len(game.keyNpcs) :
    /\ -100 <= game.keyNpcs[i].relationship
    /\ game.keyNpcs[i].relationship <= 100

(***************************************************************************)
(* C22: after any sequence of completed turns the retained window holds at *)
(* most 5 turns and is exactly the most recent min(5, k) turns of the      *)
(* k-turn history, in order; recording a turn leaves every turn already in *)
(* the history where and what it was.                                      *)
(***************************************************************************)
C22_WindowIsRecentSuffix ==
  [][probe.fn = "addStoryEntry" =>
       LET h0 == probe.out.storyHistory
           h  == probe'.out.storyHistory
           w  == probe'.out.recentTurns
       IN  /\ Len(w) <= RECENT_TURNS_TO_KEEP
           /\ Len(w) = Min(RECENT_TURNS_TO_KEEP, Len(h))
           /\ \A i \in 1..Len(w) : w[i] = h[Len(h) - Len(w) + i]
           /\ Len(h) = Len(h0) + 1
           /\ \A i \in 1..Len(h0) : h[i] = h0[i]]_vars

C22_Witness ==
  /\ Done("addStoryEntry")
  /\ probe.in.storyHistory = << >>
  /\ Len(probe.out.storyHistory) > RECENT_TURNS_TO_KEEP
  /\ probe.out.recentTurns = <<3, 4, 5, 6, 7>>

(***************************************************************************)
(* C23: every turn that runs to its completion (a dice turn or not, ending *)
(* the session or not) appends exactly one Turn, its own, to the retained  *)
(* turns and raises the turn counter by exactly 1; nothing else of a       *)
(* session adds a Turn or moves the counter.                               *)
(***************************************************************************)
ReachesTurnComplete(t) ==
  /\ Narrating(t)
  /\ th'[t].pc \in {"idle", "autosave"}
  /\ ~(th[t].pc = "narrPrimary" /\ SideEffects(game, th[t].data).threw)

OneTurnAppended(t) ==
  LET old == game.recentTurns
      new == game'.recentTurns
  IN  /\ game'.turnCount = game.turnCount + 1
      /\ Len(new) = Min(RECENT_TURNS_TO_KEEP, Len(old) + 1)
      /\ \A i \in 1..(Len(new) - 1) : new[i] = old[Len(old) + 1 - Len(new) + i]
      /\ new[Len(new)].playerAction = th[t].action
      /\ new[Len(new)].aiResponse = th[t].data

C23_OneTurnPerCompletion ==
  [][/\ \A t \in Threads : ReachesTurnComplete(t) => OneTurnAppended(t)
     /\ (game'.gid = game.gid /\ ~(\E t \in Threads : ReachesTurnComplete(t)))
          => /\ game'.turnCount = game.turnCount
             /\ game'.recentTurns = game.recentTurns]_vars

(* A dice turn whose outcome ended the session, after an earlier turn. *)
C23_Witness ==
  /\ game.turnCount = 2
  /\ Len(game.recentTurns) = 2
  /\ game.status = "completed"
  /\ IsDiceEvent(game.recentTurns[2].aiResponse.event)
  /\ game.recentTurns[2].diceOutcomeResponse.game_end
  /\ ~IsDiceEvent(game.recentTurns[1].aiResponse.event)

(***************************************************************************)
(* C24: a snapshot of a session between turns, loaded again, gives a       *)
(* session with the same character (stats and special ability included),   *)
(* NPC list, inventory, retained turns, story summary and turn counter,    *)
(* the same generator context for the next action, and, for each kind of   *)
(* next turn, the same resulting state as the saved original.              *)
(***************************************************************************)
Persistent(g) ==
  [world |-> g.world, character |-> g.character, keyNpcs |-> g.keyNpcs,
   items |-> g.items, recentTurns |-> g.recentTurns,
   storySummary |-> g.storySummary, turnCount |-> g.turnCount,
   status |-> g.status, saveSlotId |-> g.saveSlotId,
   lastSaveTurn |-> g.lastSaveTurn]

AutoSaveRequested(t) == th[t].pc # "autosave" /\ th'[t].pc = "autosave"

AutoSaveSettles(t) == th[t].pc = "autosave" /\ th'[t].pc = "idle"

(* endGame ran: the final manualSave is pending. *)
EndsSession == Len(saves') = Len(saves) + 1

C25_AutoSaveAtInterval ==
  [][\A t \in Threads :
       /\ (ReachesTurnComplete(t) /\ ~EndsSession)
            => (AutoSaveRequested(t)
                  <=> game'.turnCount - game'.lastSaveTurn >= autoSaveInterval)
       /\ (ReachesTurnComplete(t) /\ EndsSession)
            => ~AutoSaveRequested(t)
       /\ (AutoSaveSettles(t) /\ game' # game)
            => game'.lastSaveTurn = game'.turnCount]_vars

(***************************************************************************)
(* C26: when a session ends, a final write to the store is attempted and   *)
(* the status it records with the slot is the session's terminal status,   *)
(* 'completed' or 'failed', whether the session had a save slot or not.    *)
(***************************************************************************)
C26_FinalWriteCarriesStatus ==
  [][\A t \in Threads :
       (ReachesTurnComplete(t) /\ game'.status # game.status)
         => /\ game'.status \in {"completed", "failed"}
            /\ EndsSession
            /\ saves'[Len(saves')].status = game'.status]_vars

(***************************************************************************)
(* C27: the opening turn of a session never enters the dice exchange (no   *)
(* roll is requested of the player, no mechanical HP/XP is applied), and   *)
(* when it is over the session holds exactly one Turn, whose player action *)
(* is null.                                                                *)
(***************************************************************************)
InDiceExchange(t) ==
  th[t].pc \in {"awaitDice", "rolling", "awaitOutcome", "narrOutcome", "narrFallback"}

C27_OpeningTurnHasNoDice ==
  [][/\ ~InDiceExchange("o")'
     /\ (InFlight("o") /\ th'["o"].pc \in {"idle", "autosave"}
           /\ th["o"].pc # "autosave")
          => /\ Len(game'.recentTurns) = 1
             /\ game'.recentTurns[1].playerAction = ""]_vars

(***************************************************************************)
(* C28: a turn whose outcome narration came back as text that does not     *)
(* parse completes as a turn whose second call failed: the mechanical HP   *)
(* and XP already applied stay as they are and the Turn records no outcome *)
(* request and no outcome response.                                        *)
(***************************************************************************)
OutcomeUnparsed(t) ==
  /\ th[t].pc = "narrOutcome"
  /\ th[t].outResp = ValidateDiceOutcome(RawText).data

C28_UnparsedOutcomeLeavesTurnEmpty ==
  [][\A t \in Threads :
       (OutcomeUnparsed(t) /\ ReachesTurnComplete(t))
         => LET turn == game'.recentTurns[Len(game'.recentTurns)]
            IN  /\ game'.character = game.character
                /\ turn.diceOutcomeRequest = ""
                /\ turn.diceOutcomeResponse = NoData]_vars

(***************************************************************************)
(* C29: validateGameResponse returns an empty errors list exactly when it  *)
(* repaired nothing: whenever the story or the event (its type, stat,      *)
(* difficulty or severity) of the data differs from what the response      *)
(* held, errors has an entry.                                              *)
(***************************************************************************)
Repaired ==
  \/ probe.out.data.story # probe.in.story
  \/ (probe.in.event.type # "none" /\ probe.out.data.event # probe.in.event)

C29_EveryRepairRecorded ==
  (Done("validateGameResponse") /\ probe.in.kind = "object")
    => (probe.out.errors = << >> <=> ~Repaired)

(***************************************************************************)
(* C30: the event of every validated response is null or of one of the     *)
(* five known types, and a stat_check or combat event has a known stat, a  *)
(* difficulty within 1..20 and severity 'basic' or 'important'; a response *)
(* whose event has no known type is processed as a turn without event (no  *)
(* roll requested), with its story, items, NPC and hp/xp used as those of  *)
(* the same response without the event.                                    *)
(***************************************************************************)
WellFormed(e) ==
  /\ e.type \in ValidTypes \cup {"none"}
  /\ IsDiceEvent(e) =>
       /\ e.stat \in ValidStats
       /\ e.difficulty # NaN
       /\ 1 <= e.difficulty
       /\ e.difficulty <= 20
       /\ e.severity \in {"basic", "important"}

C30_ValidatedEventWellFormed ==
  /\ (Done("validateGameResponse") /\ ~probe.out.threw)
       => WellFormed(probe.out.data.event)
  /\ Done("processAIResponse")
       => /\ WellFormed(probe.out.data.event)
          /\ probe.in.raw.event.type \notin ValidTypes \cup {"none"}
               => LET bare == [probe.in.raw EXCEPT !.event = NoEvent]
                      data == ValidateGameResponse(bare).data
                  IN  /\ ~probe.out.rollRequested
                      /\ probe.out.data = data
                      /\ probe.out.game =
                           NextTurn(probe.in.game,
                                    TurnRecord(probe.in.game, data, probe.in.roll))

(***************************************************************************)
(* C31: for every character with xpToNext > 0 and every XP amount, the     *)
(* leveling loop of applyXP comes to its end, also across several         *)
(* thresholds and for xpToNext of 1 or 2.                                  *)
(***************************************************************************)
C31_LevelLoopTerminates ==
  <>(/\ probe.done
     /\ probe.out.character.xp < probe.out.character.xpToNext)

(* 250 XP on a threshold of 1, which floor(1.5 * 1) leaves at 1. *)
C31_Witness ==
  /\ probe.fn = "applyXPLoop"
  /\ probe.done
  /\ probe.in.character.xpToNext = 1
  /\ probe.in.amount = 250
  /\ probe.out.character.xpToNext = 1
  /\ probe.out.character.level > 250

(***************************************************************************)
(* C32: on a turn with no event or with an item_found, npc_encounter or    *)
(* story_end event, the declared xp_gained is applied through applyXP      *)
(* when it is positive and ignored otherwise, and then the HP becomes      *)
(* hp + hp_change clamped to [0, maxHp], for every declared integer        *)
(* hp_change, negative ones included.                                      *)
(***************************************************************************)
Clamped(c, change) ==
  [c EXCEPT !.hp = IF c.hp + change < 0 THEN 0
                   ELSE IF c.hp + change > c.maxHp THEN c.maxHp
                   ELSE c.hp + change]

C32_DeclaredAppliedXpWhenPositive ==
  (Done("declared") /\ ~IsDiceEvent(probe.in.data.event))
    => LET d == probe.in.data
           cx == IF d.xp_gained > 0 THEN ApplyXP(probe.in.character, d.xp_gained)
                 ELSE probe.in.character
       IN  probe.out = Clamped(cx, d.hp_change)

(* C32 as stated: every declared xp_gained, negative ones included, is     *)
(* applied through applyXP before the HP is clamped.                       *)
C32_DeclaredAppliedDirectly ==
  (Done("declared") /\ ~IsDiceEvent(probe.in.data.event))
    => LET d == probe.in.data
       IN  probe.out = Clamped(ApplyXP(probe.in.character, d.xp_gained), d.hp_change)

(* An item_found turn: 20 XP level the character up, then 10 HP are lost. *)
C32_Witness ==
  /\ Done("declared")
  /\ probe.in.data.event.type = "item_found"
  /\ probe.in.data.xp_gained = 20
  /\ probe.in.data.hp_change = -10
  /\ probe.in.character.xp = 90
  /\ probe.out.level = 2
  /\ probe.out.maxHp = 110
  /\ probe.out.hp = 100

AutoSaveDue == game.turnCount - game.lastSaveTurn >= autoSaveInterval

C34_FailedSaveLeavesState ==
  [][/\ \A t \in Threads :
          AutoSaveDone(t, FALSE)
            => /\ game' = game
               /\ th'[t] = IdleThread
               /\ (t = "p" => ~isProcessing')
     /\ \A i \in 1..Len(saves) :
          ManualSaveDone(i, FALSE)
            => /\ game' = game
               /\ th' = th
               /\ isProcessing' = isProcessing
               /\ inputDisabled' = inputDisabled
     /\ \A t \in Threads :
          (ReachesTurnComplete(t) /\ ~EndsSession /\ AutoSaveDue)
            => AutoSaveRequested(t)]_vars


(***************************************************************************)
(* C35: no snapshot is built from mid-turn state.  In every step in which  *)
(* buildSaveState runs (an autosave is requested, or a manual or final     *)
(* save is handed to the database), no turn is suspended between the       *)
(* changes it has applied to the session and the appending of its Turn.    *)
(***************************************************************************)
(* The turn of thread record r has gained an item (processAIResponse       *)
(* 126-131) or applied mechanical HP or XP (handleDiceEvent 238-248), and  *)
(* waits at the dice or at the outcome narration: its Turn is not yet      *)
(* appended.                                                               *)
AppliedUnrecorded(r) ==
  \/ /\ r.pc \in {"awaitDice", "rolling", "hung", "awaitOutcome", "narrOutcome",
                   "narrFallback"}
     /\ r.data.item_gained # ""
  \/ /\ r.pc \in {"awaitOutcome", "narrOutcome", "narrFallback"}
     /\ (r.xpGained > 0 \/ r.hpLost < 0)

BuildsSnapshot ==
  \/ Len(saves') = Len(saves) + 1
  \/ \E t \in Threads : AutoSaveRequested(t)

C35_NoMidTurnSnapshot ==
  [][BuildsSnapshot => \A u \in Threads : ~AppliedUnrecorded(th'[u])]_vars


(***************************************************************************)
(* C36: a turn started in one session never mutates another session.      *)
(* While the character-creation screen is shown the session is the one     *)
(* resetGame has just built and no turn of it has started, so every turn   *)
(* in flight was started in an earlier session: no step taken on that      *)
(* screen changes the HP, XP or level of the new session's character, its  *)
(* NPC list, its inventory, its retained turns or its turn counter.        *)
(***************************************************************************)
SessionContent(g) ==
  [hp |-> g.character.hp, maxHp |-> g.character.maxHp, xp |-> g.character.xp,
   level |-> g.character.level, xpToNext |-> g.character.xpToNext,
   keyNpcs |-> g.keyNpcs, items |-> g.items, recentTurns |-> g.recentTurns,
   turnCount |-> g.turnCount]

C36_SuspendedTurnLeavesNewSession ==
  [][screen = "create" => SessionContent(game') = SessionContent(game)]_vars


(***************************************************************************)
(* C37: whatever the interleaving of saves and turns, lastSaveTurn stays   *)
(* between 0 and the turn counter, and a save the database accepts leaves  *)
(* lastSaveTurn equal to the turn counter inside the snapshot that was     *)
(* persisted, even when a turn completed while the database call was       *)
(* pending.                                                                *)
(***************************************************************************)
C37_LastSaveTurnIsSnapshotTurn ==
  [][/\ 0 <= game'.lastSaveTurn
     /\ game'.lastSaveTurn <= game'.turnCount
     /\ \A t \in Threads :
          AutoSaveDone(t, TRUE) => game'.lastSaveTurn = th[t].snapTurn
     /\ \A i \in 1..Len(saves) :
          ManualSaveDone(i, TRUE) => game'.lastSaveTurn = saves[i].turnCount]_vars


(***************************************************************************)
(* C38: the session loadFromSave produces depends only on the save record. *)
(* Loading a record over any prior session state gives the same world,     *)
(* character, NPC list, inventory, retained turns, summary and turn        *)
(* counter as loading it over the session of a freshly started             *)
(* application.                                                            *)
(***************************************************************************)
Loaded(g) ==
  [world |-> g.world, character |-> g.character, keyNpcs |-> g.keyNpcs,
   items |-> g.items, recentTurns |-> g.recentTurns,
   storySummary |-> g.storySummary, turnCount |-> g.turnCount]

C38_LoadDependsOnRecordOnly ==
  Done("loadFromSave") =>
    Loaded(probe.out.loaded) = Loaded(LoadFromSave(FreshSession, probe.in.saveData))


(***************************************************************************)
(* C39: a turn is atomic with respect to its record.  Whatever the shape   *)
(* of new_npc and npc_updates in the parsed first response, a turn that    *)
(* returns in the step in which it changed the inventory or the NPC list   *)
(* has appended its Turn and incremented the turn counter.                 *)
(***************************************************************************)
C39_SideEffectsAreRecorded ==
  [][\A t \in Threads :
       (/\ Narrating(t)
        /\ th'[t].pc = "idle"
        /\ (game'.items # game.items \/ game'.keyNpcs # game.keyNpcs))
         => OneTurnAppended(t)]_vars

====
